---- MODULE Spec2Model ----
(***************************************************************************)
(* Model of crates/sysctl/src/sys/linux.rs: the Mib handle (name, value,   *)
(* set_value, from_str) and the MibIter walker (new/seek, next) over a     *)
(* file system.  Strings are sequences of one-character strings, exactly   *)
(* as the code handles them (starts_with, ends_with, replace), and a path  *)
(* is the string a PathBuf holds; path comparisons go through Components,  *)
(* as std::path does.                                                      *)
(***************************************************************************)
EXTENDS Integers, Sequences, FiniteSets, TLC

VARIABLES build, store, data, mib, arg, ret, dirs, iter, stop, out, last, depth,
          pending

vars == <<build, store, data, mib, arg, ret, dirs, iter, stop, out, last, depth,
          pending>>

----------------------------------------------------------------------------
(* Bounds of the model. *)

\* longest free-form input string handed to from_str
MaxStrLen == 3
\* largest number of entries of a generated store
MaxEntries == 4
\* longest payload handed to set_value
MaxValLen == 2

----------------------------------------------------------------------------
(* Strings. *)

SLASH == "/"
DOT == "."

\* const PATH_PREFIX: &str = "/proc/sys"
PATH_PREFIX == <<"/", "p", "r", "o", "c", "/", "s", "y", "s">>

\* const ROOT_PATH: &str = "/proc/sys/kernel"
ROOT_PATH == PATH_PREFIX \o <<"/", "k", "e", "r", "n", "e", "l">>

\* str::starts_with
StartsWith(s, p) == Len(s) >= Len(p) /\ SubSeq(s, 1, Len(p)) = p

\* str::ends_with
EndsWith(s, p) == Len(s) >= Len(p) /\ SubSeq(s, Len(s) - Len(p) + 1, Len(s)) = p

\* str::replace for one-character patterns
Replace(s, from, to) == [i \in 1..Len(s) |-> IF s[i] = from THEN to ELSE s[i]]

\* the pieces of s between separators (empty pieces included)
RECURSIVE Split(_, _)
Split(s, sep) ==
    IF \A i \in 1..Len(s) : s[i] # sep THEN <<s>>
    ELSE LET i == CHOOSE k \in 1..Len(s) : s[k] = sep /\ \A j \in 1..(k - 1) : s[j] # sep
         IN  <<SubSeq(s, 1, i - 1)>> \o Split(SubSeq(s, i + 1, Len(s)), sep)

\* pieces joined with a separator between them
RECURSIVE JoinWith(_, _)
JoinWith(parts, sep) ==
    IF parts = <<>> THEN <<>>
    ELSE IF Len(parts) = 1 THEN parts[1]
    ELSE parts[1] \o <<sep>> \o JoinWith(Tail(parts), sep)

----------------------------------------------------------------------------
(* std::path. *)

IsAbsolute(p) == Len(p) > 0 /\ p[1] = SLASH

\* Path::components: repeated separators and "." are dropped, ".." is kept
Components(p) ==
    LET Keep(c) == c # <<>> /\ c # <<DOT>>
    IN  [abs |-> IsAbsolute(p), names |-> SelectSeq(Split(p, SLASH), Keep)]

\* Path == Path compares components
PathEq(p, q) == Components(p) = Components(q)

\* Path::starts_with compares whole components
PathStartsWith(p, base) ==
    LET cp == Components(p)
        cb == Components(base)
    IN  /\ cp.abs = cb.abs
        /\ Len(cp.names) >= Len(cb.names)
        /\ SubSeq(cp.names, 1, Len(cb.names)) = cb.names

\* PathBuf::join: an absolute argument replaces the base
PathJoin(base, p) ==
    IF IsAbsolute(p) THEN p
    ELSE IF base # <<>> /\ base[Len(base)] = SLASH THEN base \o p
    ELSE base \o <<SLASH>> \o p

\* the string of an absolute path with the given components
PathOf(names) == IF names = <<>> THEN <<SLASH>> ELSE <<SLASH>> \o JoinWith(names, SLASH)

----------------------------------------------------------------------------
(* The file system the program runs on.  A listing is the sequence of the  *)
(* entries of a directory in the order read_dir returns them; an entry is  *)
(* a record: kind "dir" (list = its listing), "file", or "symlink" (link = *)
(* the path it points to).  fail names the store operation on the entry    *)
(* that the store answers with an error: "next" (reading it from its       *)
(* directory's listing), "file_type", "read_dir", "canonicalize", or       *)
(* "none".                                                                 *)

File(n) == [name |-> n, kind |-> "file", list |-> <<>>, link |-> <<>>, fail |-> "none"]
Dir(n, l) == [name |-> n, kind |-> "dir", list |-> l, link |-> <<>>, fail |-> "none"]
Symlink(n, to) == [name |-> n, kind |-> "symlink", list |-> <<>>, link |-> to, fail |-> "none"]

NameA == <<"a">>
NameB == <<"b">>
NameAB == <<"a", ".", "b">>
NameProc == <<"p", "r", "o", "c">>
NameSys == <<"s", "y", "s">>
NameSysA == <<"s", "y", "s", "a">>
NameKernel == <<"k", "e", "r", "n", "e", "l">>
NameL == <<"l">>

\* a byte that is no valid UTF-8, and U+FFFD, which to_string_lossy puts
\* in its place
BYTE_FF == "#"
REPLACEMENT == "?"
NameRaw == <<BYTE_FF>>

ListNames(l) == {l[i].name : i \in 1..Len(l)}

\* every listing of at most n entries in all (sub-listings included), with
\* names drawn from ns, no name twice in one directory
RECURSIVE Listings(_, _)
Listings(n, ns) ==
    IF n = 0 THEN {<<>>}
    ELSE {<<>>} \cup UNION { UNION {
            {<<e>> \o r : r \in {x \in Listings(n - k, ns) : e.name \notin ListNames(x)}}
            : e \in UNION {{File(nm)} \cup {Dir(nm, l) : l \in Listings(k - 1, ns)} : nm \in ns} }
            : k \in 1..n }

\* hand-made stores: a leaf whose path ends with the text of PATH_PREFIX, a
\* component holding a '.', the kernel directory of ROOT_PATH, a symlink,
\* a leaf whose name is not UTF-8
SpecialStores ==
    { <<Dir(NameProc, <<File(NameSys)>>), File(NameA)>>,
      <<File(NameA), Dir(NameProc, <<File(NameB), File(NameSys)>>)>>,
      <<File(NameAB), Dir(NameA, <<File(NameB)>>)>>,
      <<Dir(NameA, <<File(NameAB)>>), File(NameB)>>,
      <<Dir(NameKernel, <<File(NameA), File(NameB)>>), File(NameA)>>,
      <<File(NameB), Dir(NameKernel, <<File(NameA)>>), Dir(NameA, <<>>)>>,
      <<File(NameA), Symlink(NameL, PATH_PREFIX \o <<SLASH>> \o NameA), File(NameB)>>,
      <<File(NameB),
        Dir(NameA, <<File(NameB), Symlink(NameL, PATH_PREFIX \o <<SLASH>> \o NameB), File(NameA)>>),
        File(NameA)>>,
      <<File(NameRaw), File(NameA)>> }

GeneratedStores == Listings(MaxEntries, {NameA, NameB})

Stores == GeneratedStores \cup SpecialStores

\* the whole file system around a store: the store is the listing of
\* /proc/sys; /proc/sysa and /a lie outside it
FsRoot(st) == <<Dir(NameProc, <<Dir(NameSys, st), File(NameSysA)>>), File(NameA)>>

NoEntry == [name |-> <<>>, kind |-> "none", list |-> <<>>, link |-> <<>>, fail |-> "none"]

\* the entry called n in listing l, or NoEntry
Child(l, n) ==
    IF n \in ListNames(l) THEN l[CHOOSE i \in 1..Len(l) : l[i].name = n] ELSE NoEntry

\* the entry at the canonical component sequence names, below listing l
RECURSIVE EntryAt(_, _)
EntryAt(l, names) ==
    IF names = <<>> THEN Dir(<<>>, l)
    ELSE LET c == Child(l, Head(names))
         IN  IF Len(names) = 1 THEN c
             ELSE IF c.kind = "dir" THEN EntryAt(c.list, Tail(names))
             ELSE NoEntry

\* the canonical component sequences of all entries below listing l
RECURSIVE PathsBelow(_, _)
PathsBelow(l, at) ==
    UNION { {at \o <<l[i].name>>} \cup
            (IF l[i].kind = "dir" THEN PathsBelow(l[i].list, at \o <<l[i].name>>) ELSE {})
            : i \in 1..Len(l) }

PrefixNames == Components(PATH_PREFIX).names

\* the paths of the regular files of the file system around store st
FilePaths(st) ==
    {PathOf(n) : n \in {x \in PathsBelow(FsRoot(st), <<>>) : EntryAt(FsRoot(st), x).kind = "file"}}

OnlyDirsAndFiles(st) ==
    \A n \in PathsBelow(st, <<>>) : EntryAt(st, n).kind \in {"dir", "file"}

\* listing l with the entry at the component sequence names failing op
RECURSIVE InjectAt(_, _, _)
InjectAt(l, names, op) ==
    [i \in 1..Len(l) |->
        IF l[i].name # Head(names) THEN l[i]
        ELSE IF Len(names) = 1 THEN [l[i] EXCEPT !.fail = op]
        ELSE [l[i] EXCEPT !.list = InjectAt(l[i].list, Tail(names), op)]]

\* the operations that can fail on an entry of the given kind: any entry can
\* fail to be read from the listing or to tell its type, a directory to be
\* opened, a file to be resolved
FailuresOf(kind) ==
    {"next", "file_type"} \cup (IF kind = "dir" THEN {"read_dir"} ELSE {})
                         \cup (IF kind = "file" THEN {"canonicalize"} ELSE {})

\* the stores the failures are injected into
SoundStores ==
    { <<File(NameA), Dir(NameKernel, <<File(NameA), Dir(NameB, <<File(NameA)>>), File(NameB)>>),
        File(NameB)>>,
      <<Dir(NameA, <<>>), Dir(NameB, <<File(NameA), File(NameB)>>), File(NameKernel)>> }

\* every store with one failing operation on one entry
FaultyStores ==
    UNION { UNION { {InjectAt(st, n, op) : op \in FailuresOf(EntryAt(st, n).kind)}
                    : n \in PathsBelow(st, <<>>) }
            : st \in SoundStores }

StoreError(op) == IF op = "next" THEN "Uncategorized" ELSE "PermissionDenied"

----------------------------------------------------------------------------
(* Results: io::Result values, and the panic of a failed assertion or of   *)
(* unimplemented!().                                                       *)

Ok(p) == [tag |-> "Ok", path |-> p, err |-> "none", val |-> <<>>]
OkVal(v) == [tag |-> "Ok", path |-> <<>>, err |-> "none", val |-> v]
Err(k) == [tag |-> "Err", path |-> <<>>, err |-> k, val |-> <<>>]
Panic == [tag |-> "Panic", path |-> <<>>, err |-> "none", val |-> <<>>]
Nothing == [tag |-> "None", path |-> <<>>, err |-> "none", val |-> <<>>]

\* realpath below the root listing fs: cur is the canonical component
\* sequence reached so far, pieces the raw pieces still to resolve.  A piece
\* after a non-directory fails (also the empty piece of a trailing '/'); a
\* symlink is replaced by the canonical form of its (absolute) target.
RECURSIVE Resolve(_, _, _)
Resolve(fs, cur, pieces) ==
    IF pieces = <<>> THEN Ok(PathOf(cur))
    ELSE LET here == EntryAt(fs, cur)
             c == Head(pieces)
         IN  IF here.kind # "dir" THEN Err("NotADirectory")
             ELSE IF c = <<>> \/ c = <<DOT>> THEN Resolve(fs, cur, Tail(pieces))
             ELSE IF c = <<DOT, DOT>>
                  THEN Resolve(fs, SubSeq(cur, 1, Len(cur) - 1), Tail(pieces))
             ELSE LET e == Child(here.list, c)
                  IN  IF e.kind = "none" THEN Err("NotFound")
                      ELSE IF e.fail = "canonicalize" THEN Err(StoreError(e.fail))
                      ELSE IF e.kind = "symlink"
                           THEN LET to == Resolve(fs, <<>>, Split(e.link, SLASH))
                                IN  IF to.tag # "Ok" THEN to
                                    ELSE Resolve(fs, Components(to.path).names, Tail(pieces))
                      ELSE Resolve(fs, cur \o <<c>>, Tail(pieces))

\* Path::canonicalize of an absolute path (from_str passes no other)
Canonicalize(fs, p) ==
    IF p = <<>> THEN Err("NotFound") ELSE Resolve(fs, <<>>, Split(p, SLASH))

\* Path::is_file: follows symlinks, false when the path does not resolve
IsFile(fs, p) ==
    LET c == Canonicalize(fs, p)
    IN  c.tag = "Ok" /\ EntryAt(fs, Components(c.path).names).kind = "file"

IsDir(fs, p) ==
    LET c == Canonicalize(fs, p)
    IN  c.tag = "Ok" /\ EntryAt(fs, Components(c.path).names).kind = "dir"

----------------------------------------------------------------------------
(* Mib. *)

\* the path from_str hands to canonicalize: s itself when it starts with
\* the text of PATH_PREFIX, else PATH_PREFIX joined with s, '.' read as '/'
to_path(s) ==
    IF StartsWith(s, PATH_PREFIX) THEN s
    ELSE PathJoin(PATH_PREFIX, Replace(s, DOT, SLASH))

\* <Mib as FromStr>::from_str; b is the build: the debug_assert!s exist in
\* a "debug" build only
from_str(fs, b, s) ==
    IF StartsWith(s, PATH_PREFIX) /\ EndsWith(s, PATH_PREFIX) THEN Err("NotFound")
    ELSE LET canon == Canonicalize(fs, to_path(s))
         IN  IF canon.tag # "Ok" THEN canon
             ELSE IF b = "debug" /\ ~PathStartsWith(canon.path, PATH_PREFIX) THEN Panic
             ELSE Ok(canon.path)

\* a name() that strips the prefix and leaves the separators as they are
name_keep_separators(p) ==
    IF ~PathStartsWith(p, PATH_PREFIX) THEN Err("NotFound")
    ELSE OkVal(JoinWith(SubSeq(Components(p).names, Len(PrefixNames) + 1,
                               Len(Components(p).names)), SLASH))

\* Mib::name: strip_prefix, to_str, replace("/", ".")
name(p) ==
    IF ~PathStartsWith(p, PATH_PREFIX) THEN Err("NotFound")
    ELSE LET rest == SubSeq(Components(p).names, Len(PrefixNames) + 1, Len(Components(p).names))
             text == JoinWith(rest, SLASH)
         IN  IF \E i \in 1..Len(text) : text[i] = BYTE_FF THEN Err("Other")
             ELSE OkVal(Replace(text, SLASH, DOT))

\* a value() without the is_file test: a path that is no file reads as empty
value_unchecked(fs, d, p) ==
    IF ~IsFile(fs, p) THEN OkVal(<<>>)
    ELSE OkVal(d[Canonicalize(fs, p).path])

\* Mib::value
value(fs, d, p) ==
    IF ~IsFile(fs, p) THEN Err("Other")
    ELSE OkVal(d[Canonicalize(fs, p).path])

\* OpenOptions::new().write(true).open + write_all: no create, no truncate,
\* so the bytes go over the start of the old payload and its tail stays
WriteAll(old, v) == v \o SubSeq(old, Len(v) + 1, Len(old))

\* a set_value that opens with create(true): a path that does not resolve
\* becomes a new file holding v
set_value_create(fs, d, p, v) ==
    LET c == Canonicalize(fs, p)
    IN  IF c.tag # "Ok" THEN [data |-> [q \in DOMAIN d \cup {p} |-> IF q = p THEN v ELSE d[q]],
                              res |-> OkVal(v)]
        ELSE IF ~IsFile(fs, p) THEN [data |-> d, res |-> Err("IsADirectory")]
        ELSE LET d2 == [d EXCEPT ![c.path] = WriteAll(d[c.path], v)]
             IN  [data |-> d2, res |-> value(fs, d2, p)]

\* Mib::set_value: the store after the call, and the result
set_value(fs, d, p, v) ==
    LET c == Canonicalize(fs, p)
    IN  IF c.tag # "Ok" THEN [data |-> d, res |-> c]
        ELSE IF ~IsFile(fs, p) THEN [data |-> d, res |-> Err("IsADirectory")]
        ELSE LET d2 == [d EXCEPT ![c.path] = WriteAll(d[c.path], v)]
             IN  [data |-> d2, res |-> value(fs, d2, p)]

----------------------------------------------------------------------------
(* MibIter.  A ReadDir is the path of the directory it was opened on and   *)
(* the entries it has not returned yet.                                    *)

\* Path::read_dir
ReadDir(fs, p) ==
    [path |-> p, rest |-> EntryAt(fs, Components(p).names).list]

\* DirEntry::path
EntryPath(dir, entry) == PathJoin(dir.path, entry.name)

\* Path::to_string_lossy
ToStringLossy(p) == Replace(p, BYTE_FF, REPLACEMENT)

\* the steps a walk of store st can take: every entry is pulled once and
\* every listing popped once
StepBudget(st) == Cardinality(PathsBelow(st, <<>>)) * 2 + 2

\* an exhausted listing that stays on the frontier
KeepDir(ds) == ds

\* an exhausted listing leaves the frontier: dirs.remove(idx)
PopDir(ds) == SubSeq(ds, 1, Len(ds) - 1)

\* a dir.next() that returns the entry and leaves it in the listing
LeaveEntry(ds) == ds

\* the top listing after dir.next()
PullEntry(ds) == [ds EXCEPT ![Len(ds)].rest = Tail(@)]

\* the top listing after dir.next() returned Some(Err(e)): the entry could
\* not be read, and the listing returns nothing after a failed read
EndOfStream(ds) == [ds EXCEPT ![Len(ds)].rest = <<>>]

\* Some(Err(e)) of the store operation op
Failed(ds, op, nest) ==
    [dirs |-> ds, tag |-> "Some", res |-> Err(StoreError(op)), nest |-> nest]

\* a seek that reports the absent target as an error
SeekNotFound(ds, nest) == [dirs |-> ds, tag |-> "Err", nest |-> nest]

\* seek on an empty frontier: the target was not found, which is no error
SeekExhausted(ds, nest) == [dirs |-> ds, tag |-> "Ok", nest |-> nest]

\* a seek that compares a directory entry with the target before it opens
\* the directory, and stops without pushing its listing
RECURSIVE seek_stop_before_push(_, _, _, _, _)
seek_stop_before_push(fs, ds, stop_path, nest, fuel) ==
    IF fuel = 0 THEN [dirs |-> ds, tag |-> "Diverged", nest |-> nest]
    ELSE IF Len(ds) = 0 THEN SeekExhausted(ds, nest)
    ELSE LET dir == ds[Len(ds)]
         IN  IF dir.rest = <<>>
             THEN seek_stop_before_push(fs, PopDir(ds), stop_path, nest + 1, fuel - 1)
             ELSE LET entry == Head(dir.rest)
                      file_path == EntryPath(dir, entry)
                      ds1 == PullEntry(ds)
                  IN  IF entry.kind = "dir"
                      THEN IF PathEq(file_path, stop_path)
                           THEN [dirs |-> ds1, tag |-> "Ok", nest |-> nest]
                           ELSE seek_stop_before_push(fs, Append(ds1, ReadDir(fs, file_path)),
                                                      stop_path, nest + 1, fuel - 1)
                      ELSE IF entry.kind = "file"
                      THEN IF PathEq(file_path, stop_path)
                           THEN [dirs |-> ds1, tag |-> "Ok", nest |-> nest]
                           ELSE seek_stop_before_push(fs, ds1, stop_path, nest, fuel - 1)
                      ELSE [dirs |-> ds1, tag |-> "Panic", nest |-> nest]

\* fn seek inside MibIter::new: ds is dirs, nest counts the nested
\* self-invocations, fuel the steps left.  The loop over one listing is the
\* file branch calling again at the same nesting.
RECURSIVE seek(_, _, _, _, _)
seek(fs, ds, stop_path, nest, fuel) ==
    IF fuel = 0 THEN [dirs |-> ds, tag |-> "Diverged", nest |-> nest]
    ELSE IF Len(ds) = 0 THEN SeekExhausted(ds, nest)
    ELSE LET dir == ds[Len(ds)]
         IN  IF dir.rest = <<>>
             THEN seek(fs, PopDir(ds), stop_path, nest + 1, fuel - 1)
             ELSE LET entry == Head(dir.rest)
                      file_path == EntryPath(dir, entry)
                      ds1 == PullEntry(ds)
                  IN  IF entry.fail = "next"
                      THEN [dirs |-> EndOfStream(ds), tag |-> "Err", nest |-> nest]
                      ELSE IF entry.fail = "file_type"
                      THEN [dirs |-> ds1, tag |-> "Err", nest |-> nest]
                      ELSE IF entry.kind = "dir"
                      THEN IF entry.fail = "read_dir"
                           THEN [dirs |-> ds1, tag |-> "Err", nest |-> nest]
                           ELSE LET ds2 == Append(ds1, ReadDir(fs, file_path))
                                IN  IF PathEq(file_path, stop_path)
                                    THEN [dirs |-> ds2, tag |-> "Ok", nest |-> nest]
                                    ELSE seek(fs, ds2, stop_path, nest + 1, fuel - 1)
                      ELSE IF entry.kind = "file"
                      THEN IF PathEq(file_path, stop_path)
                           THEN [dirs |-> ds1, tag |-> "Ok", nest |-> nest]
                           ELSE seek(fs, ds1, stop_path, nest, fuel - 1)
                      ELSE [dirs |-> ds1, tag |-> "Panic", nest |-> nest]

\* MibIter::new: debug_assert!(root.is_dir()), open the root listing, seek
MibIterNew(fs, b, st, p) ==
    IF b = "debug" /\ ~IsDir(fs, PATH_PREFIX)
    THEN [dirs |-> <<>>, tag |-> "Panic", nest |-> 0]
    ELSE seek(fs, <<ReadDir(fs, PATH_PREFIX)>>, p, 0, StepBudget(st))

\* a next() that reports exhaustion when one listing ends, instead of going
\* on in the parent listing
RECURSIVE next_no_ascend(_, _, _, _, _)
next_no_ascend(fs, b, ds, nest, fuel) ==
    IF fuel = 0 THEN [dirs |-> ds, tag |-> "Diverged", res |-> Nothing, nest |-> nest]
    ELSE IF Len(ds) = 0 THEN [dirs |-> ds, tag |-> "None", res |-> Nothing, nest |-> nest]
    ELSE LET dir == ds[Len(ds)]
         IN  IF dir.rest = <<>>
             THEN [dirs |-> PopDir(ds), tag |-> "None", res |-> Nothing, nest |-> nest]
             ELSE LET entry == Head(dir.rest)
                      file_path == EntryPath(dir, entry)
                      ds1 == PullEntry(ds)
                  IN  IF entry.kind = "dir"
                      THEN next_no_ascend(fs, b, Append(ds1, ReadDir(fs, file_path)),
                                          nest + 1, fuel - 1)
                      ELSE IF entry.kind = "file"
                      THEN [dirs |-> ds1, tag |-> "Some",
                            res |-> from_str(fs, b, ToStringLossy(file_path)), nest |-> nest]
                      ELSE [dirs |-> ds1, tag |-> "Panic", res |-> Nothing, nest |-> nest]

\* a next() that passes over an entry that is neither a directory nor a
\* file and goes on with the entry after it
RECURSIVE next_skip_unsupported(_, _, _, _, _)
next_skip_unsupported(fs, b, ds, nest, fuel) ==
    IF fuel = 0 THEN [dirs |-> ds, tag |-> "Diverged", res |-> Nothing, nest |-> nest]
    ELSE IF Len(ds) = 0 THEN [dirs |-> ds, tag |-> "None", res |-> Nothing, nest |-> nest]
    ELSE LET dir == ds[Len(ds)]
         IN  IF dir.rest = <<>>
             THEN next_skip_unsupported(fs, b, PopDir(ds), nest + 1, fuel - 1)
             ELSE LET entry == Head(dir.rest)
                      file_path == EntryPath(dir, entry)
                      ds1 == PullEntry(ds)
                  IN  IF entry.kind = "dir"
                      THEN next_skip_unsupported(fs, b, Append(ds1, ReadDir(fs, file_path)),
                                                 nest + 1, fuel - 1)
                      ELSE IF entry.kind = "file"
                      THEN [dirs |-> ds1, tag |-> "Some",
                            res |-> from_str(fs, b, ToStringLossy(file_path)), nest |-> nest]
                      ELSE next_skip_unsupported(fs, b, ds1, nest, fuel - 1)

\* a next() that passes over an entry on which a store operation fails and
\* goes on with the entry after it
RECURSIVE next_swallow_errors(_, _, _, _, _)
next_swallow_errors(fs, b, ds, nest, fuel) ==
    IF fuel = 0 THEN [dirs |-> ds, tag |-> "Diverged", res |-> Nothing, nest |-> nest]
    ELSE IF Len(ds) = 0 THEN [dirs |-> ds, tag |-> "None", res |-> Nothing, nest |-> nest]
    ELSE LET dir == ds[Len(ds)]
         IN  IF dir.rest = <<>>
             THEN next_swallow_errors(fs, b, PopDir(ds), nest + 1, fuel - 1)
             ELSE LET entry == Head(dir.rest)
                      file_path == EntryPath(dir, entry)
                      ds1 == PullEntry(ds)
                      item == from_str(fs, b, ToStringLossy(file_path))
                  IN  IF entry.fail \in {"next", "file_type", "read_dir"}
                      THEN next_swallow_errors(fs, b, ds1, nest, fuel - 1)
                      ELSE IF entry.kind = "dir"
                      THEN next_swallow_errors(fs, b, Append(ds1, ReadDir(fs, file_path)),
                                               nest + 1, fuel - 1)
                      ELSE IF entry.kind = "file"
                      THEN IF item.tag = "Err"
                           THEN next_swallow_errors(fs, b, ds1, nest, fuel - 1)
                           ELSE [dirs |-> ds1, tag |-> "Some", res |-> item, nest |-> nest]
                      ELSE [dirs |-> ds1, tag |-> "Panic", res |-> Nothing, nest |-> nest]

\* <MibIter as Iterator>::next: the frontier after the call, the item
\* ("None", or "Some" with the Result in res), the nesting reached
RECURSIVE next(_, _, _, _, _)
next(fs, b, ds, nest, fuel) ==
    IF fuel = 0 THEN [dirs |-> ds, tag |-> "Diverged", res |-> Nothing, nest |-> nest]
    ELSE IF Len(ds) = 0 THEN [dirs |-> ds, tag |-> "None", res |-> Nothing, nest |-> nest]
    ELSE LET dir == ds[Len(ds)]
         IN  IF dir.rest = <<>>
             THEN next(fs, b, PopDir(ds), nest + 1, fuel - 1)
             ELSE LET entry == Head(dir.rest)
                      file_path == EntryPath(dir, entry)
                      ds1 == PullEntry(ds)
                  IN  IF entry.fail = "next" THEN Failed(EndOfStream(ds), "next", nest)
                      ELSE IF entry.fail = "file_type" THEN Failed(ds1, "file_type", nest)
                      ELSE IF entry.kind = "dir"
                      THEN IF entry.fail = "read_dir" THEN Failed(ds1, "read_dir", nest)
                           ELSE next(fs, b, Append(ds1, ReadDir(fs, file_path)),
                                     nest + 1, fuel - 1)
                      ELSE IF entry.kind = "file"
                      THEN [dirs |-> ds1, tag |-> "Some",
                            res |-> from_str(fs, b, ToStringLossy(file_path)), nest |-> nest]
                      ELSE [dirs |-> ds1, tag |-> "Panic", res |-> Nothing, nest |-> nest]

----------------------------------------------------------------------------
(* The reference enumeration: a recursive pre-order listing of every entry *)
(* of the store, independent of the frontier.                              *)

RECURSIVE PreOrder(_, _)
PreOrder(l, at) ==
    IF l = <<>> THEN <<>>
    ELSE LET e == Head(l)
             p == PathJoin(at, e.name)
         IN  <<[path |-> p, kind |-> e.kind, fail |-> e.fail]>>
             \o (IF e.kind = "dir" THEN PreOrder(e.list, p) ELSE <<>>)
             \o PreOrder(Tail(l), at)

IsLeaf(e) == e.kind = "file"

PathsOf(es) == [i \in 1..Len(es) |-> es[i].path]

\* the leaves of the whole store, in pre-order
AllLeaves(st) == PathsOf(SelectSeq(PreOrder(st, PATH_PREFIX), IsLeaf))

\* the place of path p in the pre-order, 0 when it is no entry
PlaceOf(st, p) ==
    LET es == PreOrder(st, PATH_PREFIX)
    IN  IF \E i \in 1..Len(es) : es[i].path = p
        THEN CHOOSE i \in 1..Len(es) : es[i].path = p
        ELSE 0

\* the leaves that come after the entry p in the pre-order
LeavesAfter(st, p) ==
    LET es == PreOrder(st, PATH_PREFIX)
    IN  PathsOf(SelectSeq(SubSeq(es, PlaceOf(st, p) + 1, Len(es)), IsLeaf))

----------------------------------------------------------------------------
(* The program state.                                                      *)
(*   build  "debug" or "release": whether debug_assert! is compiled in     *)
(*   store  the listing of /proc/sys; data: the payload of every file      *)
(*   mib    the Result of the latest Mib construction, arg how it was made *)
(*   ret    the latest call on that Mib and its result                     *)
(*   dirs   MibIter.dirs; iter: the walker's state; stop: seek's target    *)
(*   out    the items next() has returned; last: its latest return value   *)
(*   depth  the nested self-invocations of the latest seek or next         *)
(*   pending  the set_value call in progress: pc "written" between its     *)
(*          write_all and its self.value(); val its argument; raced and    *)
(*          ext: whether another process wrote the file in between, and    *)
(*          what                                                           *)

Fs == FsRoot(store)

Bytes == {"x", "y"}
Alphabet == {SLASH, DOT, "a", "b"}

StringsOver(cs, n) == UNION {[1..k -> cs] : k \in 0..n}

\* the payload every file starts with
InitialValue == <<"x", "x">>

Values == StringsOver(Bytes, MaxValLen)

\* free-form inputs of from_str: short strings, alone and after PATH_PREFIX
Inputs == StringsOver(Alphabet, MaxStrLen)
          \cup {PATH_PREFIX \o s : s \in StringsOver(Alphabet, MaxStrLen)}

\* text: a string every byte of which is valid UTF-8 (a &str)
IsText(s) == \A i \in 1..Len(s) : s[i] # BYTE_FF

\* the inputs that address the entries of store st: the path and the dotted
\* name of each entry whose name is text, and the empty name
EntryInputs(st) ==
    LET named == {n \in PathsBelow(st, <<>>) : IsText(PathOf(n))}
    IN  {<<>>} \cup {PathOf(PrefixNames \o n) : n \in named}
               \cup {JoinWith(n, DOT) : n \in named}

NoRet == [op |-> "none", res |-> Nothing, wrote |-> <<>>, fresh |-> FALSE]
NotCalled == [tag |-> "NotCalled", res |-> Nothing]
NoPending == [pc |-> "idle", val |-> <<>>, raced |-> FALSE, ext |-> <<>>]

InitWith(stores) ==
    /\ build \in {"debug", "release"}
    /\ store \in stores
    /\ data = [p \in FilePaths(store) |-> InitialValue]
    /\ mib = Nothing
    /\ arg = [by |-> "none", s |-> <<>>]
    /\ ret = NoRet
    /\ dirs = <<>>
    /\ iter = "none"
    /\ stop = <<>>
    /\ out = <<>>
    /\ last = NotCalled
    /\ depth = 0
    /\ pending = NoPending

Init == InitWith(Stores)

\* a panic ends the process
Crashed == mib.tag = "Panic" \/ iter = "panic" \/ last.tag = "Panic"

walker == <<dirs, iter, stop, out, last, depth>>

\* no call is in progress: the program is single-threaded
Idle == pending.pc = "idle"

\* s.parse::<Mib>()
FromStr(s) ==
    /\ ~Crashed /\ Idle
    /\ mib' = from_str(Fs, build, s)
    /\ arg' = [by |-> "from_str", s |-> s]
    /\ ret' = NoRet
    /\ UNCHANGED <<build, store, data, walker, pending>>

\* Mib::default()
Default ==
    /\ ~Crashed /\ Idle
    /\ mib' = Ok(ROOT_PATH)
    /\ arg' = [by |-> "default", s |-> <<>>]
    /\ ret' = NoRet
    /\ UNCHANGED <<build, store, data, walker, pending>>

\* mib.name()
Name ==
    /\ ~Crashed /\ Idle
    /\ mib.tag = "Ok"
    /\ ret' = [op |-> "name", res |-> name(mib.path), wrote |-> <<>>, fresh |-> FALSE]
    /\ UNCHANGED <<build, store, data, mib, arg, walker, pending>>

\* mib.value()
Value ==
    /\ ~Crashed /\ Idle
    /\ mib.tag = "Ok"
    /\ ret' = [op |-> "value", res |-> value(Fs, data, mib.path), wrote |-> ret.wrote,
               fresh |-> (ret.op = "set_value" /\ ret.res.tag = "Ok")]
    /\ UNCHANGED <<build, store, data, mib, arg, walker, pending>>

\* mib.set_value(v)
SetValue(v) ==
    /\ ~Crashed /\ Idle
    /\ mib.tag = "Ok"
    /\ LET r == set_value(Fs, data, mib.path, v)
       IN  /\ data' = r.data
           /\ ret' = [op |-> "set_value", res |-> r.res, wrote |-> v, fresh |-> FALSE]
    /\ UNCHANGED <<build, store, mib, arg, walker, pending>>

\* mib.iter()
Iter ==
    /\ ~Crashed /\ Idle
    /\ mib.tag = "Ok"
    /\ LET r == MibIterNew(Fs, build, store, mib.path)
       IN  /\ dirs' = r.dirs
           /\ iter' = (CASE r.tag = "Ok" -> "ready"
                         [] r.tag = "Err" -> "failed"
                         [] r.tag = "Panic" -> "panic"
                         [] OTHER -> "diverged")
           /\ depth' = r.nest
    /\ stop' = mib.path
    /\ out' = <<>>
    /\ last' = NotCalled
    /\ UNCHANGED <<build, store, data, mib, arg, ret, pending>>

\* iter.next()
NextCall ==
    /\ ~Crashed /\ Idle
    /\ iter = "ready"
    /\ LET r == next(Fs, build, dirs, 0, StepBudget(store))
       IN  /\ dirs' = r.dirs
           /\ last' = [tag |-> r.tag, res |-> r.res]
           /\ out' = IF r.tag = "Some" THEN Append(out, r.res) ELSE out
           /\ depth' = r.nest
    /\ UNCHANGED <<build, store, data, mib, arg, ret, iter, stop, pending>>

\* the first half of mib.set_value(v): open for writing and write_all.  A
\* failed open returns at once; after the write, self.value() is still to come
SetValueWrite(v) ==
    /\ ~Crashed /\ Idle
    /\ mib.tag = "Ok"
    /\ LET c == Canonicalize(Fs, mib.path)
       IN  IF c.tag # "Ok" \/ ~IsFile(Fs, mib.path)
           THEN /\ ret' = [op |-> "set_value", res |-> set_value(Fs, data, mib.path, v).res,
                           wrote |-> v, fresh |-> FALSE]
                /\ UNCHANGED <<data, pending>>
           ELSE /\ data' = [data EXCEPT ![c.path] = WriteAll(@, v)]
                /\ pending' = [pc |-> "written", val |-> v, raced |-> FALSE, ext |-> <<>>]
                /\ ret' = NoRet
    /\ UNCHANGED <<build, store, mib, arg, walker>>

\* the second half of mib.set_value(v): self.value()
SetValueReread ==
    /\ ~Crashed
    /\ pending.pc = "written"
    /\ ret' = [op |-> "set_value", res |-> value(Fs, data, mib.path),
               wrote |-> pending.val, fresh |-> FALSE]
    /\ pending' = [pending EXCEPT !.pc = "idle"]
    /\ UNCHANGED <<build, store, data, mib, arg, walker>>

\* another process replaces the payload of the file of the Node by w
ExternalWrite(w) ==
    /\ ~Crashed
    /\ mib.tag = "Ok"
    /\ IsFile(Fs, mib.path)
    /\ data' = [data EXCEPT ![Canonicalize(Fs, mib.path).path] = w]
    /\ pending' = IF pending.pc = "written"
                  THEN [pending EXCEPT !.raced = TRUE, !.ext = w]
                  ELSE pending
    /\ UNCHANGED <<build, store, mib, arg, ret, walker>>

\* the whole program
Next ==
    \/ \E s \in Inputs : FromStr(s)
    \/ Default
    \/ Name
    \/ Value
    \/ \E v \in Values : SetValue(v)
    \/ Iter
    \/ NextCall
    \/ \E v \in Values : SetValueWrite(v)
    \/ SetValueReread
    \/ \E w \in Values : ExternalWrite(w)

Spec == Init /\ [][Next]_vars

(* The specifications below are the program restricted to one component:   *)
(* each constructs one Mib per run (Unparsed) and then calls the           *)
(* operations of that component in any order, so each of their behaviours  *)
(* is a behaviour of Spec.                                                 *)

Unparsed == arg.by = "none"

\* name resolution: every free-form input, on every store
ParseAny == Unparsed /\ \E s \in Inputs \cup EntryInputs(store) : FromStr(s)

\* the Mib of an entry of the store, by its path or its dotted name
ParseEntry == Unparsed /\ \E s \in EntryInputs(store) : FromStr(s)

MakeDefault == Unparsed /\ Default

NextName == ParseAny \/ MakeDefault \/ Name

SpecName == Init /\ [][NextName]_vars

\* the walker, seeded at the entries of the store: one walker per run
StartWalk == iter = "none" /\ Iter

NextWalk == ParseEntry \/ MakeDefault \/ StartWalk \/ NextCall

SpecWalk == Init /\ [][NextWalk]_vars

\* next() can be called and would change the state: the enabling condition
\* of <<NextCall>>_vars (a second call after exhaustion changes nothing)
CanPull == ~Crashed /\ iter = "ready" /\ (last.tag # "None" \/ depth # 0)

\* the caller keeps calling next(): weak fairness of NextCall, which is
\* WF_vars(NextCall) with its enabling condition written out
FairWalk == SpecWalk /\ ([]<>(~CanPull) \/ []<><<NextCall>>_vars)

\* payloads, on the entries of the hand-made stores
WriteAny == \E v \in Values : SetValue(v)

NextValue == ParseEntry \/ MakeDefault \/ Value \/ WriteAny

SpecValue == InitWith(SpecialStores) /\ [][NextValue]_vars

\* set_value step by step, beside a process that writes the same file
WriteStart == \E v \in Values : SetValueWrite(v)

OtherWriter == \E w \in Values : ExternalWrite(w)

NextRace == ParseEntry \/ MakeDefault \/ WriteStart \/ OtherWriter \/ SetValueReread

SpecRace == InitWith(SpecialStores) /\ [][NextRace]_vars

\* the walker on the stores where one store operation fails
SpecFaultyWalk == InitWith(FaultyStores) /\ [][NextWalk]_vars

----------------------------------------------------------------------------
(* The walker's claims.                                                    *)

OkItems(ps) == [i \in 1..Len(ps) |-> Ok(ps[i])]

IsPrefixOf(a, b) == Len(a) <= Len(b) /\ SubSeq(b, 1, Len(a)) = a

\* the kind of the store entry the walker was seeded at: "dir", "file",
\* "symlink", or "none" when the target is no entry of the store
TargetKind ==
    LET es == PreOrder(store, PATH_PREFIX)
    IN  IF PlaceOf(store, stop) = 0 THEN "none" ELSE es[PlaceOf(store, stop)].kind

\* the walker exists and the store holds containers and leaves only
Walking == iter = "ready" /\ OnlyDirsAndFiles(store)

\* what next() has returned so far is the start of the expected items, and
\* all of them once it has reported exhaustion
Yields(items) ==
    /\ IsPrefixOf(out, items)
    /\ last.tag = "None" => out = items

\* every leaf of the store has a path that is text and does not end with the
\* text of PATH_PREFIX
PlainLeaves(st) ==
    \A i \in 1..Len(AllLeaves(st)) :
        /\ ~EndsWith(AllLeaves(st)[i], PATH_PREFIX)
        /\ \A k \in 1..Len(AllLeaves(st)[i]) : AllLeaves(st)[i][k] # BYTE_FF

\* on such stores the walker returns the leaves after its seed, whatever the
\* seed's kind (beside the root itself)
SeekOnPlainLeaves ==
    (Walking /\ PlainLeaves(store) /\ TargetKind \in {"file", "dir"}) =>
        Yields(OkItems(LeavesAfter(store, stop)))

\* C1: a walker seeded at a leaf p returns exactly, in order, the leaves that
\* come after p in the pre-order of the whole store
C1_SeekLeaf ==
    (Walking /\ TargetKind = "file") => Yields(OkItems(LeavesAfter(store, stop)))

\* C2: a walker seeded at a container c below the root returns exactly, in
\* order, the leaves of c's subtree followed by every leaf after it
C2_SeekContainer ==
    (Walking /\ TargetKind = "dir") =>
        LET all == AllLeaves(store)
            from == LeavesAfter(store, stop)
        IN  /\ Yields(OkItems(from))
            /\ IsPrefixOf(SubSeq(all, 1, Len(all) - Len(from)) \o PathsOf(out), all)

\* C3: a walker seeded at the store root returns every leaf of the store, in
\* pre-order
C3_FullEnumeration ==
    (Walking /\ stop = PATH_PREFIX) => Yields(OkItems(AllLeaves(store)))

\* C4: once next() has reported exhaustion it reports exhaustion ever
\* after, returns nothing more, and the frontier is and stays empty
C4_ExhaustionIdempotent ==
    /\ [](last.tag = "None" => dirs = <<>>)
    /\ [][last.tag = "None" => (last'.tag = "None" /\ dirs' = <<>> /\ out' = out)]_vars

C4_Witness == last.tag = "None" /\ Len(out) >= 2

\* C5: on a store of containers and leaves, seek and every next() end
\* within the step budget, next() returns at most as many items as the store
\* has leaves, and a caller that keeps calling reaches exhaustion
C5_Termination ==
    /\ [](OnlyDirsAndFiles(store) =>
            /\ iter # "diverged"
            /\ last.tag # "Diverged"
            /\ Len(out) <= Len(AllLeaves(store)))
    /\ [](Walking => <>(last.tag = "None"))

C5_Witness == Walking /\ last.tag = "None" /\ Len(out) = Len(AllLeaves(store)) /\ Len(out) >= 2

\* C6: when the target is no entry of the store, MibIter::new succeeds with
\* an empty frontier and the first next() reports exhaustion
C6_AbsentTarget ==
    (iter # "none" /\ OnlyDirsAndFiles(store) /\ TargetKind = "none") =>
        /\ iter = "ready"
        /\ dirs = <<>>
        /\ last.tag \in {"NotCalled", "None"}

C6_Witness ==
    /\ iter = "ready" /\ TargetKind = "none" /\ last.tag = "None"
    /\ Len(AllLeaves(store)) >= 2

\* the places, in the pre-order of store st, of the entries that are neither
\* a container nor a leaf
UnsupportedPlaces(st) ==
    {i \in 1..Len(PreOrder(st, PATH_PREFIX)) : PreOrder(st, PATH_PREFIX)[i].kind = "symlink"}

FirstOf(places) == CHOOSE i \in places : \A j \in places : i <= j

\* the leaves strictly between the places t and u of the pre-order
LeavesBetween(st, t, u) ==
    PathsOf(SelectSeq(SubSeq(PreOrder(st, PATH_PREFIX), t + 1, u - 1), IsLeaf))

\* C11: an entry that is neither a container nor a leaf is fatal.  When the
\* first such entry lies before the target (or the target is absent), seek
\* pulls it and MibIter::new panics; when it lies after the target, next()
\* returns the leaves before it, then panics: the entry is no item, no leaf
\* after it is ever returned, and exhaustion is never reported.
C11_UnsupportedFatal ==
    (iter # "none" /\ UnsupportedPlaces(store) # {}) =>
        LET t == PlaceOf(store, stop)
            u == FirstOf(UnsupportedPlaces(store))
        IN  IF t = 0 \/ u <= t
            THEN iter = "panic" /\ out = <<>> /\ last.tag = "NotCalled"
            ELSE /\ iter = "ready"
                 /\ IsPrefixOf(out, OkItems(LeavesBetween(store, t, u)))
                 /\ last.tag \in {"NotCalled", "Some", "Panic"}
                 /\ last.tag = "Panic" => out = OkItems(LeavesBetween(store, t, u))

\* next() returned a leaf, then ran into the unsupported entry
C11_Witness ==
    /\ UnsupportedPlaces(store) # {}
    /\ last.tag = "Panic"
    /\ Len(out) >= 1

----------------------------------------------------------------------------
(* The claims about names and payloads.                                    *)

Exists(p) == Canonicalize(Fs, p).tag = "Ok"

UnderRoot(p) == PathStartsWith(p, PATH_PREFIX)

\* C7: a Node from_str returns exists and lies under the root prefix; an
\* input whose resolved path escapes the prefix gets a NotFound error, and
\* one whose path does not resolve gets an error, and no Node
C7_Containment ==
    arg.by = "from_str" =>
        LET resolved == Canonicalize(Fs, to_path(arg.s))
        IN  /\ mib.tag = "Ok" => (Exists(mib.path) /\ UnderRoot(mib.path))
            /\ (resolved.tag = "Ok" /\ ~UnderRoot(resolved.path)) => mib = Err("NotFound")
            /\ resolved.tag # "Ok" => mib.tag = "Err"

\* C8: when set_value(v) succeeds, it returns v, and so does the value()
\* call that follows it
C8_WriteThenRead ==
    /\ (ret.op = "set_value" /\ ret.res.tag = "Ok") => ret.res.val = ret.wrote
    /\ (ret.op = "value" /\ ret.fresh) => ret.res = OkVal(ret.wrote)

\* a dotted name: text without a path separator
IsDotted(s) == \A i \in 1..Len(s) : s[i] # SLASH

\* a dotted name in canonical form: no empty component (no leading, trailing
\* or doubled '.'); the empty name is the root
WellFormed(s) == IsDotted(s) /\ (s = <<>> \/ \A i \in 1..Len(Split(s, DOT)) : Split(s, DOT)[i] # <<>>)

\* the latest call was name(), on a Node under the root that from_str made
NamedParsed == ret.op = "name" /\ arg.by = "from_str" /\ mib.tag = "Ok" /\ UnderRoot(mib.path)

\* C9 as stated: name() of the Node a dotted name n resolves to returns n
C9_NameRoundTrip == (NamedParsed /\ IsDotted(arg.s)) => ret.res = OkVal(arg.s)

\* C9, amended: on a store of containers and leaves, name() of the Node a
\* dotted name n in canonical form resolves to returns n
C9_CanonicalNameRoundTrip ==
    (NamedParsed /\ WellFormed(arg.s) /\ OnlyDirsAndFiles(store)) => ret.res = OkVal(arg.s)

C9_Witness ==
    /\ NamedParsed /\ WellFormed(arg.s) /\ OnlyDirsAndFiles(store)
    /\ Len(Split(arg.s, DOT)) >= 2
    /\ ret.res = OkVal(arg.s)

\* C10: from_str(name()) of a Node that exists and whose path name() accepts
\* is a Node with the same path
C10_PathRoundTrip ==
    (ret.op = "name" /\ ret.res.tag = "Ok" /\ mib.tag = "Ok" /\ Exists(mib.path)) =>
        from_str(Fs, build, ret.res.val) = Ok(mib.path)

\* C12: value() on a Node whose position is no leaf (a container, or nothing
\* at all) returns the error of kind Other and no payload, and a value()
\* call changes neither the store nor any payload
C12_ReadContainerRejected ==
    /\ []((ret.op = "value" /\ ~IsFile(Fs, mib.path)) =>
            (ret.res = Err("Other") /\ ret.res.val = <<>>))
    /\ [][ret'.op = "value" => (store' = store /\ data' = data)]_vars

C12_Witness ==
    /\ ret.op = "value" /\ mib.tag = "Ok" /\ IsDir(Fs, mib.path)
    /\ ret.res = Err("Other")
    /\ \E q \in DOMAIN data : PathStartsWith(q, mib.path)

\* C13: set_value on a Node whose position is a container or does not exist
\* returns an error, creates no entry and changes no payload
C13_WriteRequiresLeaf ==
    [][(ret'.op = "set_value" /\ ~IsFile(Fs, mib.path)) =>
          /\ ret'.res.tag = "Err"
          /\ store' = store
          /\ DOMAIN data' = DOMAIN data
          /\ data' = data]_vars

\* set_value was called on the Node of Mib::default() where the store has
\* no kernel entry
C13_Witness ==
    /\ ret.op = "set_value" /\ ret.wrote # <<>>
    /\ arg.by = "default" /\ ~Exists(mib.path)
    /\ ret.res = Err("NotFound")

\* set_value was called on the Node of a container
C13_OnContainer ==
    /\ ret.op = "set_value" /\ ret.wrote # <<>>
    /\ IsDir(Fs, mib.path)
    /\ ret.res = Err("IsADirectory")

----------------------------------------------------------------------------
(* The shape of the frontier.                                              *)

\* the whole listing of the directory a frontier slot was opened on
FullListing(slot) == EntryAt(Fs, Components(slot.path).names).list

\* how many entries of its directory a slot has returned
Consumed(slot) == Len(FullListing(slot)) - Len(slot.rest)

\* the slot holds exactly the entries of its directory not yet returned
IsRemainder(slot) ==
    /\ Len(slot.rest) <= Len(FullListing(slot))
    /\ slot.rest = SubSeq(FullListing(slot), Consumed(slot) + 1, Len(FullListing(slot)))

\* the depth of the deepest container of store st, the root being at depth 0
DeepestContainer(st) ==
    LET ds == {Len(n) : n \in {x \in PathsBelow(st, <<>>) : EntryAt(st, x).kind = "dir"}} \cup {0}
    IN  CHOOSE d \in ds : \A e \in ds : e <= d

\* ds is a chain from the root to the cursor
IsChain(ds) ==
    /\ Len(ds) > 0 => ds[1].path = PATH_PREFIX
    /\ \A i \in 1..Len(ds) : IsRemainder(ds[i])
    /\ \A i \in 1..(Len(ds) - 1) :
          /\ Consumed(ds[i]) >= 1
          /\ FullListing(ds[i])[Consumed(ds[i])].kind = "dir"
          /\ ds[i + 1].path = EntryPath(ds[i], FullListing(ds[i])[Consumed(ds[i])])
    /\ Len(ds) <= DeepestContainer(store) + 1

\* C14: after seek and after every next() that returned, the frontier is a
\* chain from the root to the cursor: dirs[1] is the listing of the root,
\* dirs[i+1] the listing of the directory that was the latest entry dirs[i]
\* returned, every slot holds exactly what its directory has not returned
\* yet, and there are at most (depth of the deepest container + 1) slots
C14_FrontierChain ==
    (iter = "ready" /\ last.tag \in {"NotCalled", "Some", "None"}) => IsChain(dirs)

\* three levels are open, the lowest partly consumed
C14_Witness ==
    /\ iter = "ready" /\ last.tag = "Some"
    /\ Len(dirs) = 3
    /\ Consumed(dirs[3]) >= 1 /\ dirs[3].rest # <<>>

\* the directory that holds the entry at path p
Parent(p) == PathOf(SubSeq(Components(p).names, 1, Len(Components(p).names) - 1))

\* MibIter::new has returned a walker seeded at a container, next() has not
\* been called yet
SeekedAtContainer == iter = "ready" /\ TargetKind = "dir" /\ last.tag = "NotCalled"

\* C15 as stated: seek stops at a container target without pushing its
\* listing, so the frontier top after seek is the listing of the target's
\* parent
C15_StopWithoutDescending ==
    SeekedAtContainer => (dirs # <<>> /\ dirs[Len(dirs)].path = Parent(stop))

\* C15, amended: seek stops at a container target after it has pushed the
\* target's listing: the frontier top after seek is the whole, unconsumed
\* listing of the target, on top of the listing of the target's parent, of
\* which the target is the latest entry returned
C15_StopAfterPush ==
    SeekedAtContainer =>
        /\ Len(dirs) >= 2
        /\ dirs[Len(dirs)] = ReadDir(Fs, stop)
        /\ dirs[Len(dirs) - 1].path = Parent(stop)
        /\ EntryPath(dirs[Len(dirs) - 1],
                     FullListing(dirs[Len(dirs) - 1])[Consumed(dirs[Len(dirs) - 1])]) = stop

\* seek stopped at a container two levels below the root that has entries
C15_Witness ==
    /\ SeekedAtContainer
    /\ Len(dirs) = 3
    /\ dirs[3].rest # <<>>

----------------------------------------------------------------------------
(* Failing store operations.                                               *)

\* the places, in the pre-order of store st, of the entries on which a store
\* operation fails
FaultPlaces(st) ==
    {i \in 1..Len(PreOrder(st, PATH_PREFIX)) : PreOrder(st, PATH_PREFIX)[i].fail # "none"}

\* the entry on which a store operation fails
FaultyEntry == PreOrder(store, PATH_PREFIX)[FirstOf(FaultPlaces(store))]

\* the error the store answers with
TheError == Err(StoreError(FaultyEntry.fail))

\* what next() returns before it reaches the faulty entry
BeforeFault ==
    OkItems(LeavesBetween(store, PlaceOf(store, stop), FirstOf(FaultPlaces(store))))

\* the latest next() is the one that ran into the failing operation
JustFailed == last.tag = "Some" /\ out = BeforeFault \o <<TheError>>

\* the frontier ends with the listing of the directory that holds the path p
TopHolds(p) ==
    /\ dirs # <<>>
    /\ dirs[Len(dirs)].path = Parent(p)
    /\ Len(dirs) = Len(Components(p).names) - Len(PrefixNames)

\* C16: a failing store operation is returned, not passed over.  When seek
\* meets it (reading an entry, its type, or opening a directory, at or
\* before the target), MibIter::new fails and there is no walker; when
\* next() meets it, that call returns the error right after the leaves that
\* come before the faulty entry, with the frontier still ending in the
\* listing that holds the entry: nothing pushed, nothing popped.
C16_ErrorsSurfaced ==
    (iter # "none" /\ FaultPlaces(store) # {}) =>
        LET t == PlaceOf(store, stop)
            f == FirstOf(FaultPlaces(store))
        IN  IF FaultyEntry.fail # "canonicalize" /\ (t = 0 \/ f <= t)
            THEN iter = "failed" /\ out = <<>> /\ last.tag = "NotCalled"
            ELSE IF t > 0 /\ t < f
            THEN /\ iter = "ready"
                 /\ IsPrefixOf(out, BeforeFault) \/ IsPrefixOf(BeforeFault \o <<TheError>>, out)
                 /\ IsPrefixOf(out, BeforeFault) => last.tag \in {"NotCalled", "Some"}
                 /\ JustFailed => TopHolds(FaultyEntry.path)
            ELSE iter = "ready"

\* next() returned a leaf, then the error of a directory that could not be
\* opened
C16_Witness ==
    /\ FaultPlaces(store) # {}
    /\ FaultyEntry.fail = "read_dir"
    /\ JustFailed
    /\ Len(out) >= 2

----------------------------------------------------------------------------
(* Leaves and their Nodes.                                                 *)

\* C17: every leaf next() pulls is returned as Ok of the Node with the
\* leaf's own path: on a store of containers and leaves, the i-th item is
\* the Node of the i-th leaf after the seed, never an error and never the
\* Node of another path
C17_LeafYieldsOwnNode ==
    Walking =>
        \A i \in 1..Len(out) :
            /\ out[i].tag = "Ok"
            /\ i <= Len(LeavesAfter(store, stop))
            /\ out[i].path = LeavesAfter(store, stop)[i]

----------------------------------------------------------------------------
(* set_value beside another writer.                                        *)

\* set_value has returned Ok
WriteReturned == ret.op = "set_value" /\ ret.res.tag = "Ok" /\ Idle

\* when another process wrote the file between the write and the re-read,
\* set_value(v) succeeds and returns what that process wrote
RacedReturnsExternal ==
    (ret.op = "set_value" /\ Idle /\ pending.raced) => ret.res = OkVal(pending.ext)

RacedWitness == WriteReturned /\ pending.raced /\ pending.ext # ret.wrote

\* C18: set_value(v) returns what a read after its write finds: the value
\* another process wrote in between when there is one, and v when there is
\* none
C18_WriteRereadNotAtomic ==
    WriteReturned =>
        ret.res.val = (IF pending.raced THEN pending.ext ELSE ret.wrote)

----------------------------------------------------------------------------
(* Recursion.                                                              *)

\* the number of levels of the tree of store st: the root is one level, and
\* every entry lies one level below its directory
TreeDepth(st) ==
    LET ls == {Len(n) : n \in PathsBelow(st, <<>>)} \cup {0}
    IN  (CHOOSE d \in ls : \A e \in ls : e <= d) + 1

\* C19: the nested self-invocations of seek, and of one next() call, never
\* exceed the depth of the store's tree
C19_RecursionBounded ==
    (iter \in {"ready", "failed"} /\ OnlyDirsAndFiles(store)) => depth <= TreeDepth(store)

====
